---- MODULE Spec2Model ----
(***************************************************************************)
(* Kale: delivery and admission-control core.                              *)
(*                                                                         *)
(*   app/services/limitter.py  RateLimitService   (quota admission)        *)
(*   app/services/email.py     EmailService       (SMTP pool, delivery)    *)
(*   app/services/public.py    PublicAPIService   (request pipeline)       *)
(*                                                                         *)
(* Every coroutine is cut at its await points: the code between two awaits *)
(* runs without interruption on the asyncio event loop and is one action.  *)
(***************************************************************************)
EXTENDS Integers, Sequences, FiniteSets, TLC

VARIABLES
    now,        \* datetime.utcnow(), in seconds
    ticks,      \* how often the clock has been advanced
    redisUp,    \* whether the counter store answers
    redis,      \* the counter store: key -> [count, expires]
    rl,         \* per caller: the rate-limit call in progress
    ncalls,     \* rate-limit operations started so far
    outage,     \* history: the store has been unreachable at some time
    used,       \* history: buckets in which a counter was incremented
    hist,       \* history: per key, the calls decided on it
    last,       \* the rate-limit operation that returned in the last step
    connection_pool,  \* EmailService.connection_pool: key -> connection
    smtp,       \* the SMTP connection objects created so far
    pcall,      \* per caller: the get_smtp_connection call in progress
    nacq,       \* get_smtp_connection calls started so far
    ndrop,      \* connections the relay has dropped so far
    failedNoop, \* history: connections whose noop() failed
    pev,        \* what get_smtp_connection did in the last step
    users,      \* the tenant's row of table users: the running send counters
    email_logs, \* table email_logs: one row per logged delivery attempt
    req,        \* the send_email_via_public_api request in progress
    nreq,       \* requests started so far
    resp,       \* the response returned in the last step
    dbUp,       \* whether the database answers
    email_bounces,  \* table email_bounces: the addresses known to bounce
    dlv,        \* the send_email_enhanced call in progress
    ndlv,       \* send_email_enhanced calls started so far
    dret,       \* what send_email_enhanced or handle_webhook returned in
                \* the last step
    smtp_configs,   \* table smtp_configs: the rows, in the order of their ids
    cret,       \* what the last call of create_smtp_config returned
    probe       \* an instant, with the key label and the reset time of a
                \* window at that instant

limiterVars ==
    <<now, ticks, redisUp, redis, rl, ncalls, outage, used, hist, last>>

poolVars == <<connection_pool, smtp, pcall, nacq, ndrop, failedNoop, pev>>

sendVars == <<users, email_logs, req, nreq, resp, dbUp>>

deliverVars == <<email_bounces, dlv, ndlv, dret>>

configVars == <<smtp_configs, cret>>

vars == <<limiterVars, poolVars, sendVars, deliverVars, configVars, probe>>

(***************************************************************************)
(* Bounds of the model                                                     *)
(***************************************************************************)
NumCallers == 2
MaxCalls == 2
MaxTicks == 1
StartTime == 30
MaxAcquires == 3
MaxConns == 2
MaxDrops == 1
MaxRequests == 1
MaxRecipients == 2
MaxDeliveries == 1
MaxConfigs == 3

(* Deployment settings (app/core/config.py reads them from the environment)*)
(* scaled down so that a few calls reach them.                             *)
API_RATE_LIMIT_PER_MINUTE == 2
API_RATE_LIMIT_PER_HOUR == 3
API_RATE_LIMIT_PER_DAY == 3
EMAIL_BURST_LIMIT == 1
UNVERIFIED_DAILY_LIMIT == 2
SMTP_CONNECTION_POOL_SIZE == 1

(***************************************************************************)
(* Program constants                                                       *)
(***************************************************************************)
VERIFIED_DAILY_LIMIT == -1
UnlimitedDaily == 999999999
FallbackLimit == 1000
IpLimitPerMinute == 100
MaxRecipientsPerRequest == 100
SecondsPerMinute == 60
SecondsPerHour == 3600
SecondsPerDay == 86400
ImplicitTlsPort == 465
SubmissionPort == 587
SmtpPort == 25

Callers == 1..NumCallers

Max(a, b) == IF a >= b THEN a ELSE b
Min(a, b) == IF a <= b THEN a ELSE b

(***************************************************************************)
(* RateLimitService: configuration and pure helpers                        *)
(***************************************************************************)
RateLimitType == {"api_calls", "email_sends"}
RateLimitWindow == {"minute", "hour", "day"}

\* self.rate_limits of the two types the send path uses, 0 when absent
rate_limits(rtype, window) ==
    CASE rtype = "api_calls" /\ window = "minute" -> API_RATE_LIMIT_PER_MINUTE
      [] rtype = "api_calls" /\ window = "hour" -> API_RATE_LIMIT_PER_HOUR
      [] rtype = "api_calls" /\ window = "day" -> API_RATE_LIMIT_PER_DAY
      [] rtype = "email_sends" /\ window = "minute" -> EMAIL_BURST_LIMIT
      [] rtype = "email_sends" /\ window = "day" -> UNVERIFIED_DAILY_LIMIT
      [] OTHER -> 0

HasConfiguredLimit(rtype, window) ==
    \/ rtype = "api_calls"
    \/ rtype = "email_sends" /\ window \in {"minute", "day"}

_get_window_seconds(window) ==
    CASE window = "minute" -> SecondsPerMinute
      [] window = "hour" -> SecondsPerHour
      [] window = "day" -> SecondsPerDay

\* the calendar-aligned bucket label of instant t (UTC: minute, hour and day
\* labels change exactly at the multiples of the window length)
TimeBucket(window, t) == t \div _get_window_seconds(window)

\* a key that leaves the time bucket out
_get_redis_key_unbucketed(rtype, ident, window, t) ==
    <<rtype, ident, window, 0>>

_get_redis_key(rtype, ident, window, t) ==
    <<rtype, ident, window, TimeBucket(window, t)>>

_get_reset_time(window, t) ==
    (t \div _get_window_seconds(window) + 1) * _get_window_seconds(window)

\* limit = custom_limit or self.rate_limits.get(rate_type, {}).get(window, 1000)
\* (custom 0 stands for None; Python's "or" also skips a custom limit of 0)
EffectiveLimit(c) ==
    IF c.custom # 0 THEN c.custom
    ELSE IF HasConfiguredLimit(c.rtype, c.window)
         THEN rate_limits(c.rtype, c.window)
         ELSE FallbackLimit

(***************************************************************************)
(* RateLimitService: state                                                 *)
(***************************************************************************)
UserId == "u1"
ClientIp == "ip:c1"
Endpoint == "u1:/send"

\* the amounts a caller may ask for: none, some, more than the burst limit
MaxIncrement == EMAIL_BURST_LIMIT + 1

Check(rtype, ident, window, custom, inc) ==
    [rtype |-> rtype, ident |-> ident, window |-> window,
     custom |-> custom, inc |-> inc]

NoKey == <<"none", "none", "none", 0>>

IdleCall ==
    [pc |-> "idle", op |-> "none", todo |-> <<>>, key |-> NoKey, bkt |-> 0,
     cur |-> 0, readUp |-> TRUE, den |-> 0, res |-> <<>>]

NoReturn == [caller |-> 0, op |-> "none", ret |-> "none", res |-> <<>>]

\* history of a key: the unit calls (increment 1) returned and admitted on
\* it, whether a larger amount was admitted, and the least amount denied
EmptyHist == [units |-> 0, admits |-> 0, other |-> FALSE, minDenied |-> 0]

HistOf(k) == IF k \in DOMAIN hist THEN hist[k] ELSE EmptyHist

\* the value a GET of key k returns from a reachable store: a key past its
\* TTL is gone
StoredCount(k) ==
    IF k \in DOMAIN redis /\ now < redis[k].expires THEN redis[k].count ELSE 0

\* A counter a deployment may already hold when the calls of a run start.
PreloadKeys == {_get_redis_key("api_calls", ClientIp, "minute", StartTime)}

PreloadCount(k) == IpLimitPerMinute - 1

InitCounters(store) ==
    /\ now = StartTime
    /\ ticks = 0
    /\ redisUp = TRUE
    /\ redis = store
    /\ hist = [k \in {} |-> EmptyHist]
    /\ rl = [p \in Callers |-> IdleCall]
    /\ ncalls = 0
    /\ outage = FALSE
    /\ used = {}
    /\ last = NoReturn

Preloaded ==
    [k \in PreloadKeys |->
        [count |-> PreloadCount(k),
         expires |-> _get_reset_time(k[3], StartTime)]]

InitLimiter == InitCounters(Preloaded)

(***************************************************************************)
(* RateLimitService.check_rate_limit, cut at its two awaits                *)
(***************************************************************************)
\* entering check_rate_limit for the first check of todo: lines 168-174 up
\* to the await of _get_current_count
EnterCheck(call, todo) ==
    LET c == Head(todo)
        k == _get_redis_key(c.rtype, c.ident, c.window, now)
    IN  [call EXCEPT !.pc = "get", !.todo = todo, !.key = k,
                     !.bkt = TimeBucket(c.window, now), !.cur = 0,
                     !.readUp = TRUE, !.den = HistOf(k).minDenied]

Begin(p, op, todo) ==
    /\ rl[p].pc = "idle"
    /\ ncalls < MaxCalls
    /\ rl' = [rl EXCEPT ![p] = EnterCheck([IdleCall EXCEPT !.op = op], todo)]
    /\ ncalls' = ncalls + 1
    /\ last' = NoReturn
    /\ UNCHANGED <<now, ticks, redisUp, redis, outage, used>>

\* an operation that goes on to its next window whatever the check returned
ReturnsAtLastCheck(call, r) == Len(call.todo) = 1

\* whether the operation returns with result r of its current check: every
\* caller of check_rate_limit returns the first denial (limitter.py 257, 294,
\* 304; public.py 303, 314, 325, 336) and otherwise goes on to its next window
Returns(call, r) == ~r.allowed \/ Len(call.todo) = 1

\* the caller's record once check_rate_limit has returned r: up to the await
\* of its next check, or idle
AfterCheck(call, r) ==
    IF Returns(call, r)
    THEN IdleCall
    ELSE EnterCheck([call EXCEPT !.res = Append(call.res, r)], Tail(call.todo))

\* the return value of the operation that returns in this step
Returned(p, call, r) ==
    IF Returns(call, r)
    THEN [caller |-> p, op |-> call.op,
          ret |-> IF r.allowed THEN "allowed" ELSE "denied",
          res |-> Append(call.res, r)]
    ELSE NoReturn

\* a decision that denies the amount that just fits
LimitReached(cur, inc, limit) == cur + inc >= limit

\* the decision of lines 177-190: deny when the count read plus the
\* increment exceeds the limit
LimitExceeded(cur, inc, limit) == cur + inc > limit

\* a RateLimitResult, with what the call saw: the count read, whether the
\* store answered the read and answers now, whether the clock's bucket has no
\* usage yet, whether the clock still is in the bucket the call began in, the
\* least amount denied on the key before the call
Result(call, allowed, cur, readUp, remaining, retry) ==
    LET c == Head(call.todo)
    IN  [allowed |-> allowed, limit |-> EffectiveLimit(c),
         remaining |-> remaining, retry_after |-> retry,
         check |-> c, key |-> call.key, cur |-> cur, den |-> call.den,
         readUp |-> readUp, up |-> redisUp,
         fresh |-> <<c.rtype, c.ident, c.window,
                     TimeBucket(c.window, now)>> \notin used,
         inBucket |-> call.bkt = TimeBucket(c.window, now)]

\* _get_current_count answers: a store error is swallowed and reads as 0
\* (lines 222-224); then lines 177-190
GetCurrentCount(p) ==
    /\ rl[p].pc = "get"
    /\ LET c == Head(rl[p].todo)
           limit == EffectiveLimit(c)
           cur == IF redisUp THEN StoredCount(rl[p].key) ELSE 0
           reset == _get_reset_time(c.window, now)
           r == Result(rl[p], FALSE, cur, redisUp, 0, reset - now)
       IN  IF LimitExceeded(cur, c.inc, limit)
           THEN /\ rl' = [rl EXCEPT ![p] = AfterCheck(rl[p], r)]
                /\ last' = Returned(p, rl[p], r)
           ELSE /\ rl' = [rl EXCEPT ![p].pc = "incr", ![p].cur = cur,
                                    ![p].readUp = redisUp]
                /\ last' = NoReturn
    /\ UNCHANGED <<now, ticks, redisUp, redis, ncalls, outage, used>>

\* pipe.incrby(key, increment); pipe.expire(key, ttl) in one MULTI block
Incrby(k, inc, ttl) ==
    [x \in DOMAIN redis \cup {k} |->
        IF x = k THEN [count |-> StoredCount(k) + inc, expires |-> now + ttl]
        ELSE redis[x]]

\* _increment_counter answers (a store error is swallowed, lines 233-234);
\* then lines 196-203
IncrementCounter(p) ==
    /\ rl[p].pc = "incr"
    /\ LET c == Head(rl[p].todo)
           limit == EffectiveLimit(c)
           r == Result(rl[p], TRUE, rl[p].cur, rl[p].readUp,
                       Max(0, limit - (rl[p].cur + c.inc)), 0)
       IN  /\ redis' = IF redisUp
                       THEN Incrby(rl[p].key, c.inc,
                                   _get_window_seconds(c.window))
                       ELSE redis
           /\ used' = IF redisUp /\ c.inc > 0
                      THEN used \cup {<<c.rtype, c.ident, c.window,
                                        TimeBucket(c.window, now)>>}
                      ELSE used
           /\ rl' = [rl EXCEPT ![p] = AfterCheck(rl[p], r)]
           /\ last' = Returned(p, rl[p], r)
    /\ UNCHANGED <<now, ticks, redisUp, ncalls, outage>>

(***************************************************************************)
(* The callers of check_rate_limit                                         *)
(***************************************************************************)
\* one check of the burst window, as check_email_rate_limit (lines 249-255)
\* and get_rate_limit_status (increment 0, lines 338-343) make it
check_rate_limit(p, inc) ==
    Begin(p, "check_rate_limit",
          <<Check("email_sends", UserId, "minute", EMAIL_BURST_LIMIT, inc)>>)

\* lines 241-246
DailyLimit(is_verified) ==
    IF is_verified
    THEN IF VERIFIED_DAILY_LIMIT = -1 THEN UnlimitedDaily
         ELSE VERIFIED_DAILY_LIMIT
    ELSE UNVERIFIED_DAILY_LIMIT

EmailChecks(user_id, is_verified, email_count) ==
    <<Check("email_sends", user_id, "minute", EMAIL_BURST_LIMIT, email_count),
      Check("email_sends", user_id, "day", DailyLimit(is_verified), email_count)>>

check_email_rate_limit(p) ==
    \E is_verified \in BOOLEAN, email_count \in 1..MaxIncrement :
        Begin(p, "check_email_rate_limit",
              EmailChecks(UserId, is_verified, email_count))

ApiChecks(rate_key) ==
    <<Check("api_calls", rate_key, "minute", 0, 1),
      Check("api_calls", rate_key, "hour", 0, 1),
      Check("api_calls", rate_key, "day", 0, 1)>>

check_api_rate_limit(p) ==
    Begin(p, "check_api_rate_limit", ApiChecks(Endpoint))

\* PublicAPIService._check_rate_limits
PipelineChecks(user_id, is_verified, client_ip) ==
    EmailChecks(user_id, is_verified, 1) \o
    <<Check("api_calls", user_id, "minute", API_RATE_LIMIT_PER_MINUTE, 1),
      Check("api_calls", user_id, "hour", API_RATE_LIMIT_PER_HOUR, 1),
      Check("api_calls", client_ip, "minute", IpLimitPerMinute, 1)>>

\* the call record on entering _check_rate_limits, up to its first await
_check_rate_limits(is_verified) ==
    EnterCheck([IdleCall EXCEPT !.op = "_check_rate_limits"],
               PipelineChecks(UserId, is_verified, ClientIp))

(***************************************************************************)
(* The environment: the clock and the counter store                        *)
(***************************************************************************)
NextBoundary(t, len) == (t \div len + 1) * len

Advance(t) ==
    /\ ticks < MaxTicks
    /\ ticks' = ticks + 1
    /\ now' = t
    /\ last' = NoReturn
    /\ UNCHANGED <<redisUp, redis, rl, ncalls, outage, used>>

TickMinute == Advance(NextBoundary(now, SecondsPerMinute))
TickHour == Advance(NextBoundary(now, SecondsPerHour))
TickDay == Advance(NextBoundary(now, SecondsPerDay))

\* the store becomes unreachable (once in a run) and comes back
RedisDown ==
    /\ redisUp
    /\ ~outage
    /\ redisUp' = FALSE
    /\ outage' = TRUE
    /\ last' = NoReturn
    /\ UNCHANGED <<now, ticks, redis, rl, ncalls, used>>

RedisBack ==
    /\ ~redisUp
    /\ redisUp' = TRUE
    /\ last' = NoReturn
    /\ UNCHANGED <<now, ticks, redis, rl, ncalls, outage, used>>

\* the history of the keys, written as check_rate_limit returns
RecordHist(r) ==
    LET k == r.key
        h == HistOf(k)
        h2 == [units |-> h.units + (IF r.check.inc = 1 THEN 1 ELSE 0),
               admits |-> h.admits +
                          (IF r.check.inc = 1 /\ r.allowed THEN 1 ELSE 0),
               other |-> h.other \/ (r.allowed /\ r.check.inc > 1),
               minDenied |-> IF r.allowed THEN h.minDenied
                             ELSE IF h.minDenied = 0 THEN r.check.inc
                             ELSE Min(h.minDenied, r.check.inc)]
    IN  [x \in DOMAIN hist \cup {k} |-> IF x = k THEN h2 ELSE hist[x]]

Recorded ==
    /\ hist' = IF last' # NoReturn THEN RecordHist(last'.res[Len(last'.res)])
               ELSE hist
    /\ UNCHANGED <<poolVars, sendVars, deliverVars, configVars, probe>>

Unrecorded == UNCHANGED <<hist, poolVars, sendVars, deliverVars, configVars, probe>>

LastResult == last.res[Len(last.res)]

AllIdle == \A p \in Callers : rl[p].pc = "idle"

\* C1 (quota atomicity): of the unit calls (increment 1) made in one bucket
\* that had no prior usage, with the store reachable throughout, never more
\* than the limit are admitted, and once all have returned exactly
\* min(N, L) of the N calls were admitted.
C1_QuotaAtomicity ==
    \A k \in DOMAIN hist :
        (~outage /\ ticks = 0 /\ ~hist[k].other /\ k \notin PreloadKeys) =>
            /\ hist[k].admits <= EMAIL_BURST_LIMIT
            /\ AllIdle =>
                   hist[k].admits = Min(hist[k].units, EMAIL_BURST_LIMIT)

\* C8 (denial is stable): with the store reachable throughout, the stored
\* count of a burst bucket never exceeds the burst limit, and a check of an
\* amount at least as large as one denied on the bucket before the check
\* began is denied too while the clock stays in the bucket.
C8_DenialStable ==
    ~outage =>
        /\ \A k \in DOMAIN redis :
               (k[1] = "email_sends" /\ k[3] = "minute") =>
                   redis[k].count <= EMAIL_BURST_LIMIT
        /\ (last # NoReturn /\ LastResult.den # 0
                /\ LastResult.check.inc >= LastResult.den
                /\ LastResult.inBucket) => ~LastResult.allowed

\* the clock has left the bucket the run started in, the check that returned
\* began in the clock's bucket, and no counter was incremented in it so far
FirstInLaterBucket ==
    /\ last # NoReturn
    /\ TimeBucket(LastResult.check.window, now) >
           TimeBucket(LastResult.check.window, StartTime)
    /\ LastResult.inBucket
    /\ LastResult.fresh

\* C9 as stated (window reset): the first check in a later bucket reports
\* remaining == limit.
C9_RemainingIsLimit ==
    FirstInLaterBucket => LastResult.remaining = LastResult.limit

\* C9 amended (window reset): the first check in a later bucket decides as if
\* nothing had been counted: it admits exactly the amounts that fit the limit
\* and reports remaining == limit - amount, or 0 on denial.
C9_WindowReset ==
    FirstInLaterBucket =>
        /\ LastResult.allowed = (LastResult.check.inc <= LastResult.limit)
        /\ LastResult.remaining =
               IF LastResult.allowed
               THEN LastResult.limit - LastResult.check.inc
               ELSE 0

\* a check admitted first in a later bucket while the earlier bucket's
\* counter, filled to the limit, still is in the store
C9_Witness ==
    /\ FirstInLaterBucket
    /\ LastResult.allowed
    /\ LastResult.check.inc > 0
    /\ \E k \in DOMAIN redis :
           /\ k[1] = LastResult.key[1] /\ k[2] = LastResult.key[2]
           /\ k[3] = LastResult.key[3] /\ k[4] < LastResult.key[4]
           /\ now < redis[k].expires
           /\ redis[k].count >= LastResult.limit

\* C10 (fail-open): a check during which the store answered neither the read
\* nor the increment returns allowed, whatever the limit and the amount.
C10_FailOpen ==
    (last # NoReturn /\ ~LastResult.readUp /\ ~LastResult.up) =>
        LastResult.allowed

\* the single checks of a run: the burst window, the API windows with their
\* configured limits, and the minute window of the client's address, whose
\* counter is one short of its limit
SingleChecks ==
    {Check("email_sends", UserId, "minute", EMAIL_BURST_LIMIT, inc) :
        inc \in 0..MaxIncrement}
    \cup {Check("api_calls", UserId, window, 0, inc) :
            window \in RateLimitWindow, inc \in 1..MaxIncrement}
    \cup {Check("api_calls", ClientIp, "minute", IpLimitPerMinute, inc) :
            inc \in 1..MaxIncrement}

\* check_rate_limit, called when no other call is in progress
check_rate_limit_alone(p) ==
    /\ AllIdle
    /\ \E c \in SingleChecks : Begin(p, "check_rate_limit", <<c>>)

\* C24 (decision matches reservation, sequential): a check_rate_limit call
\* that ran alone, with the store reachable and the clock in the bucket the
\* call began in, returns allowed exactly when the count c it read plus the
\* amount a is within the limit L; admitted, the counter is c + a and
\* remaining is L - (c + a); denied, remaining is 0, retry_after is the time
\* to the reset, and the counter is c.
C24_DecisionMatchesReservation ==
    (last # NoReturn /\ LastResult.inBucket) =>
        LET r == LastResult
            c == r.cur
            a == r.check.inc
        IN  /\ r.allowed <=> c + a <= r.limit
            /\ r.allowed =>
                   /\ StoredCount(r.key) = c + a
                   /\ r.remaining = r.limit - (c + a)
            /\ ~r.allowed =>
                   /\ StoredCount(r.key) = c
                   /\ r.remaining = 0
                   /\ r.retry_after =
                          _get_reset_time(r.check.window, now) - now
                   /\ r.retry_after > 0

\* a call admitted for the amount that just fits a counter already in use
C24_Witness ==
    /\ last # NoReturn
    /\ LastResult.inBucket
    /\ LastResult.allowed
    /\ LastResult.cur > 0
    /\ LastResult.check.inc > 0
    /\ LastResult.cur + LastResult.check.inc = LastResult.limit
    /\ StoredCount(LastResult.key) = LastResult.limit
    /\ LastResult.remaining = 0

\* the windows an operation checks, in the order of its code
WindowsOf(op) ==
    IF op = "check_email_rate_limit" THEN <<"minute", "day">>
    ELSE <<"minute", "hour", "day">>

SMTPConfig(host, port, username, password) ==
    [smtp_host |-> host, smtp_port |-> port, smtp_username |-> username,
     smtp_password |-> password]

\* the relay configurations of a run: two that differ only in the password,
\* and one without credentials
Configs ==
    {SMTPConfig("relay", 587, "alice", "secret1"),
     SMTPConfig("relay", 587, "alice", "secret2"),
     SMTPConfig("relay", 587, "", "")}

NoConfig == SMTPConfig("", 0, "", "")

\* connection_key = f"{config.smtp_host}:{config.smtp_port}:{config.smtp_username}"
connection_key(config) ==
    <<config.smtp_host, config.smtp_port, config.smtp_username>>

IdleAcquire ==
    [pc |-> "idle", config |-> NoConfig, conn |-> 0, reused |-> FALSE,
     thrown |-> FALSE]

NoEvent == [caller |-> 0, kind |-> "none", conn |-> 0, raised |-> FALSE]

Event(p, kind, c, raised) ==
    [caller |-> p, kind |-> kind, conn |-> c, raised |-> raised]

InitPool ==
    /\ connection_pool = [k \in {} |-> 0]
    /\ smtp = <<>>
    /\ pcall = [p \in Callers |-> IdleAcquire]
    /\ nacq = 0
    /\ ndrop = 0
    /\ failedNoop = {}
    /\ pev = NoEvent

\* a health check that every connection passes
AlwaysHealthy(c) == TRUE

\* connection.noop() succeeds on a connection the relay still serves
Healthy(c) == smtp[c].alive

\* aiosmtplib.SMTP(...) of lines 71-77, up to the await of connect()
CreateConnection(p, call) ==
    /\ Len(smtp) < MaxConns
    /\ smtp' = Append(smtp, [config |-> call.config, state |-> "created",
                             alive |-> FALSE, failed |-> FALSE])
    /\ pcall' = [pcall EXCEPT ![p] = [call EXCEPT !.pc = "connect",
                                                  !.conn = Len(smtp) + 1,
                                                  !.reused = FALSE]]

\* lines 57-63: a pooled connection is tested, else a new one is made (the
\* callers are coroutines without identity: the next call takes the lowest
\* free place)
Acquire(p) ==
    /\ pcall[p].pc = "idle"
    /\ \A q \in Callers : q < p => pcall[q].pc # "idle"
    /\ nacq < MaxAcquires
    /\ nacq' = nacq + 1
    /\ \E config \in Configs :
        LET key == connection_key(config)
            call == [IdleAcquire EXCEPT !.config = config]
        IN  IF key \in DOMAIN connection_pool
            THEN /\ pcall' = [pcall EXCEPT ![p] =
                                 [call EXCEPT !.pc = "noop",
                                              !.conn = connection_pool[key],
                                              !.reused = TRUE]]
                 /\ UNCHANGED smtp
            ELSE CreateConnection(p, call)
    /\ pev' = NoEvent
    /\ UNCHANGED <<connection_pool, ndrop, failedNoop>>

\* the handler of lines 66-68, and lines 71-77 after it: del raises KeyError
\* out of get_smtp_connection when the key is not in the pool
Evict(p, call) ==
    LET key == connection_key(call.config)
    IN  IF key \in DOMAIN connection_pool
        THEN /\ connection_pool' =
                    [k \in DOMAIN connection_pool \ {key} |-> connection_pool[k]]
             /\ CreateConnection(p, call)
        ELSE /\ pcall' = [pcall EXCEPT ![p] = IdleAcquire]
             /\ UNCHANGED <<connection_pool, smtp>>

\* await connection.noop() answers: yield the pooled connection (line 64) or
\* evict it
NoopReturns(p) ==
    /\ pcall[p].pc = "noop"
    /\ LET c == pcall[p].conn
           key == connection_key(pcall[p].config)
       IN  IF Healthy(c)
           THEN /\ pcall' = [pcall EXCEPT ![p].pc = "using"]
                /\ pev' = Event(p, "yield", c, FALSE)
                /\ UNCHANGED <<connection_pool, smtp, failedNoop>>
           ELSE /\ Evict(p, pcall[p])
                /\ failedNoop' = failedNoop \cup {c}
                /\ pev' = Event(p, "noop_failed", c,
                                key \notin DOMAIN connection_pool)
    /\ UNCHANGED <<nacq, ndrop>>

\* the handler of lines 88-94, up to the await of connection.quit()
ConnectionFailed(p) ==
    pcall' = [pcall EXCEPT ![p].pc = "quit"]

\* lines 85-86: the connection is pooled and yielded; a generator that yields
\* again after an exception was thrown into it makes the context manager
\* raise RuntimeError
StoreAndYield(p) ==
    LET c == pcall[p].conn
        key == connection_key(pcall[p].config)
    IN  /\ connection_pool' =
               [k \in DOMAIN connection_pool \cup {key} |->
                   IF k = key THEN c ELSE connection_pool[k]]
        /\ IF pcall[p].thrown
           THEN /\ pcall' = [pcall EXCEPT ![p] = IdleAcquire]
                /\ pev' = Event(p, "runtime_error", c, TRUE)
           ELSE /\ pcall' = [pcall EXCEPT ![p].pc = "using"]
                /\ pev' = Event(p, "yield", c, FALSE)

NeedsLogin(config) == config.smtp_username # "" /\ config.smtp_password # ""

\* await connection.connect() answers (line 80)
ConnectReturns(p) ==
    /\ pcall[p].pc = "connect"
    /\ \E ok \in BOOLEAN :
        LET c == pcall[p].conn
        IN  IF ok
            THEN /\ smtp' = [smtp EXCEPT ![c].state = "connected",
                                         ![c].alive = TRUE]
                 /\ IF NeedsLogin(pcall[p].config)
                    THEN /\ pcall' = [pcall EXCEPT ![p].pc = "login"]
                         /\ pev' = NoEvent
                         /\ UNCHANGED connection_pool
                    ELSE StoreAndYield(p)
            ELSE /\ ConnectionFailed(p)
                 /\ smtp' = [smtp EXCEPT ![c].failed = TRUE]
                 /\ pev' = NoEvent
                 /\ UNCHANGED connection_pool
    /\ UNCHANGED <<nacq, ndrop, failedNoop>>

\* await connection.login(...) answers (line 82)
LoginReturns(p) ==
    /\ pcall[p].pc = "login"
    /\ \E ok \in BOOLEAN :
        LET c == pcall[p].conn
        IN  IF ok /\ Healthy(c)
            THEN /\ smtp' = [smtp EXCEPT ![c].state = "ready"]
                 /\ StoreAndYield(p)
            ELSE /\ ConnectionFailed(p)
                 /\ smtp' = [smtp EXCEPT ![c].failed = TRUE]
                 /\ pev' = NoEvent
                 /\ UNCHANGED connection_pool
    /\ UNCHANGED <<nacq, ndrop, failedNoop>>

\* await connection.quit() answers, whatever it raises is dropped, and the
\* exception is raised again (lines 90-94)
QuitReturns(p) ==
    /\ pcall[p].pc = "quit"
    /\ smtp' = [smtp EXCEPT ![pcall[p].conn].state = "quit",
                            ![pcall[p].conn].alive = FALSE]
    /\ pcall' = [pcall EXCEPT ![p] = IdleAcquire]
    /\ pev' = Event(p, "raised", pcall[p].conn, TRUE)
    /\ UNCHANGED <<connection_pool, nacq, ndrop, failedNoop>>

\* the body of the caller's "async with" ends normally: the generator
\* returns (line 65) or runs off its end (after line 86)
BodyReturns(p) ==
    /\ pcall[p].pc = "using"
    /\ pcall' = [pcall EXCEPT ![p] = IdleAcquire]
    /\ pev' = NoEvent
    /\ UNCHANGED <<connection_pool, smtp, nacq, ndrop, failedNoop>>

\* the body raises: the exception is thrown into the generator at its yield,
\* where the handler of line 66 (a reused connection) or of line 88 (a new
\* one) catches it
BodyRaises(p) ==
    /\ pcall[p].pc = "using"
    /\ IF pcall[p].reused
       THEN /\ Evict(p, [pcall[p] EXCEPT !.thrown = TRUE])
            /\ pev' = Event(p, "body_raised", pcall[p].conn,
                            connection_key(pcall[p].config)
                                \notin DOMAIN connection_pool)
       ELSE /\ ConnectionFailed(p)
            /\ pev' = Event(p, "body_raised", pcall[p].conn, FALSE)
            /\ UNCHANGED <<connection_pool, smtp>>
    /\ UNCHANGED <<nacq, ndrop, failedNoop>>

\* the relay or the network drops a pooled connection
Drop ==
    /\ ndrop < MaxDrops
    /\ \E c \in 1..Len(smtp) :
        /\ smtp[c].alive
        /\ \E k \in DOMAIN connection_pool : connection_pool[k] = c
        /\ smtp' = [smtp EXCEPT ![c].alive = FALSE]
    /\ ndrop' = ndrop + 1
    /\ pev' = NoEvent
    /\ UNCHANGED <<connection_pool, pcall, nacq, failedNoop>>

DiffersOnlyInSecret(c1, c2) ==
    /\ connection_key(c1) = connection_key(c2)
    /\ c1.smtp_password # c2.smtp_password

\* C2 (pool key isolation): get_smtp_connection never yields, to a caller
\* with one config, a connection made for a config that differs from it only
\* in smtp_password.
C2_PoolKeyIsolation ==
    \A p \in Callers :
        pcall[p].pc = "using" =>
            ~DiffersOnlyInSecret(pcall[p].config, smtp[pcall[p].conn].config)

\* C13 (pool capacity): connection_pool never holds more entries than
\* SMTP_CONNECTION_POOL_SIZE.
C13_PoolCapacity ==
    Cardinality(DOMAIN connection_pool) <= SMTP_CONNECTION_POOL_SIZE

\* C3 (health eviction): a connection whose noop() failed is not in the pool
\* and is not yielded afterwards, and the call that saw the noop() fail goes
\* on to a new connection.
C3_HealthEviction ==
    /\ \A k \in DOMAIN connection_pool : connection_pool[k] \notin failedNoop
    /\ pev.kind = "yield" => pev.conn \notin failedNoop
    /\ pev.kind = "noop_failed" =>
           /\ ~pev.raised
           /\ pcall[pev.caller].pc = "connect"
           /\ pcall[pev.caller].conn # pev.conn

\* the positions of a call between its lookup of the key (line 59) and its
\* yield
Acquiring == {"noop", "connect", "login"}

\* C14 (atomic acquire): no two calls are between lookup and yield for the
\* same key at the same time, and the discard of a dead entry never raises
\* because another call has discarded it already.
C14_AtomicAcquire ==
    /\ \A p, q \in Callers :
           (p # q /\ pcall[p].pc \in Acquiring /\ pcall[q].pc \in Acquiring) =>
               connection_key(pcall[p].config) # connection_key(pcall[q].config)
    /\ pev.kind = "noop_failed" => ~pev.raised

\* C28 (exclusive use of a pooled connection): no two callers are inside the
\* block of get_smtp_connection with the same connection at the same time.
C28_ExclusiveUse ==
    \A p, q \in Callers :
        (p # q /\ pcall[p].pc = "using" /\ pcall[q].pc = "using") =>
            pcall[p].conn # pcall[q].conn

\* C22 (release never closes a healthy handle): when a caller leaves the
\* block of get_smtp_connection with a connection the relay still serves,
\* by the end of its code or by an exception of its code, the call is over
\* in that step, the pool is as it was, and no connection was quit or made.
C22_ReleaseKeepsHandle ==
    [][\A p \in Callers :
          (/\ pcall[p].pc = "using"
           /\ pcall'[p].pc # "using"
           /\ smtp[pcall[p].conn].alive)
              => /\ pcall'[p].pc = "idle"
                 /\ connection_pool' = connection_pool
                 /\ smtp' = smtp]_vars

\* C15 (verified handles): a connection is yielded only if, in the call
\* that yields it, it answered noop() (a pooled one) or completed connect()
\* and, for a config with user name and password, login() (a new one, made
\* for that config); no connection whose connect() or login() failed is
\* yielded, held by a caller or stored in the pool.
C15_VerifiedHandles ==
    /\ pev.kind = "yield" =>
           LET c == pev.conn
               call == pcall[pev.caller]
           IN  /\ ~smtp[c].failed
               /\ IF call.reused
                  THEN smtp[c].alive
                  ELSE /\ smtp[c].config = call.config
                       /\ smtp[c].state =
                              IF call.config.smtp_username # ""
                                   /\ call.config.smtp_password # ""
                              THEN "ready" ELSE "connected"
    /\ \A p \in Callers :
           pcall[p].pc = "using" => ~smtp[pcall[p].conn].failed
    /\ \A k \in DOMAIN connection_pool :
           /\ ~smtp[connection_pool[k]].failed
           /\ smtp[connection_pool[k]].state # "created"

\* a pooled connection that passed its health check is yielded after another
\* connection failed to connect or to log in
C15_Witness ==
    /\ pev.kind = "yield"
    /\ pcall[pev.caller].reused
    /\ \E c \in 1..Len(smtp) : smtp[c].failed

(***************************************************************************)
(* PublicAPIService.send_email_via_public_api: the request pipeline        *)
(***************************************************************************)
\* the caller whose rate-limit calls are the pipeline's
Sender == CHOOSE p \in Callers : \A q \in Callers : p <= q

Absent == "<absent>"

Addresses == {"a@x.io", "b@x.io"}

\* email_pattern of line 370 on the strings of a run
WellFormed(s) == s \in Addresses

\* Python's truth value of request_data.get(field)
Truthy(x) == x # Absent /\ x # ""

Data(recipients, to_email, email, recipient) ==
    [recipients |-> recipients, to_email |-> to_email, email |-> email,
     recipient |-> recipient]

\* the recipient lists of a run: neighbours differ, so that an exchange of
\* two attempts shows, and one list names an address twice
RecipientLists ==
    {[i \in 1..n |-> IF i % 2 = 1 THEN "a@x.io" ELSE "b@x.io"] :
        n \in 1..MaxRecipients} \cup {<<"b@x.io", "b@x.io">>}

\* the request bodies of a run: a list of recipients, one of the single
\* recipient fields, a malformed address, nothing
RequestData ==
    {Data(rs, Absent, Absent, Absent) : rs \in RecipientLists} \cup
    {Data(<<>>, "a@x.io", Absent, Absent),
     Data(<<>>, Absent, "a@x.io", Absent),
     Data(<<>>, Absent, Absent, "a@x.io"),
     Data(<<"bad">>, Absent, Absent, Absent),
     Data(<<>>, Absent, Absent, Absent)}

AnyTruthy(rs) == \E i \in 1..Len(rs) : Truthy(rs[i])

\* _validate_request_data, lines 349-375: the first failed check, or "ok"
_validate_request_data(data) ==
    LET rs == IF data.recipients # <<>> THEN data.recipients
              ELSE IF Truthy(data.to_email) THEN <<data.to_email>>
              ELSE IF Truthy(data.email) THEN <<data.email>>
              ELSE IF Truthy(data.recipient) THEN <<data.recipient>>
              ELSE <<>>
    IN  IF rs = <<>> \/ ~AnyTruthy(rs) THEN "Recipients required"
        ELSE IF Len(rs) > MaxRecipientsPerRequest
             THEN "Maximum 100 recipients per request"
        ELSE IF \E i \in 1..Len(rs) : ~WellFormed(rs[i])
             THEN "Invalid email format"
        ELSE "ok"

\* step 7, lines 114-119: the recipients the loop runs over
DispatchRecipients(data) ==
    IF data.recipients # <<>> THEN data.recipients
    ELSE <<IF data.to_email # Absent THEN data.to_email ELSE data.email>>

\* the remaining daily email quota of the tenant, from the day counter
RemainingDaily(is_verified) ==
    DailyLimit(is_verified) -
        StoredCount(_get_redis_key("email_sends", UserId, "day", now))

NoCounters == [total_emails_sent |-> 0, emails_sent_today |-> 0]

\* a request, with what held when it began: the remaining daily quota and
\* the tenant's counters
IdleRequest ==
    [pc |-> "idle", is_verified |-> FALSE,
     data |-> Data(<<>>, Absent, Absent, Absent),
     template |-> FALSE, smtp_config |-> FALSE, recipients |-> <<>>, i |-> 0,
     sent_count |-> 0, failed_count |-> 0, results |-> <<>>,
     attempts |-> <<>>, remaining0 |-> 0, users0 |-> NoCounters,
     key_ok |-> FALSE, is_active |-> FALSE, allowed |-> FALSE,
     steps |-> <<>>, readable |-> FALSE]

NoResponse ==
    [code |-> 0, success |-> FALSE, message |-> "none", http |-> 0,
     logged |-> FALSE, request |-> IdleRequest]

\* the phrases the route looks for in the message of a failed call
\* (routes/public.py, lines 124-132; all but the first in message.lower())
Phrases(message) ==
    CASE message = "Invalid API key" -> {"Invalid API key", "invalid"}
      [] message = "Account suspended" -> {"suspended"}
      [] message = "rate limit exceeded" -> {"rate limit"}
      [] message = "Recipients required" -> {"required"}
      [] message = "Invalid email format" -> {"invalid"}
      [] message = "Template not found" -> {"not found"}
      [] message = "SMTP configuration required" -> {"required"}
      [] OTHER -> {}

\* send_email_public_api, routes/public.py lines 116-144: the HTTP status of
\* the response
HttpStatus(success, message) ==
    IF success THEN 200
    ELSE IF "Invalid API key" \in Phrases(message) THEN 401
    ELSE IF "rate limit" \in Phrases(message) THEN 429
    ELSE IF "not found" \in Phrases(message) THEN 404
    ELSE IF "suspended" \in Phrases(message) THEN 403
    ELSE IF {"required", "invalid"} \cap Phrases(message) # {} THEN 400
    ELSE 500

\* _log_api_usage with a status code (lines 471-513: the row is written if
\* the database answers, and nothing is raised if it does not), the return
\* of the request, and the response the route makes of it
Respond(code, success, message, r) ==
    /\ resp' = [code |-> code, success |-> success, message |-> message,
                http |-> HttpStatus(success, message), logged |-> dbUp,
                request |-> r]
    /\ req' = IdleRequest

\* a response before the loop of step 8: nothing was sent
Reject(code, message, r) ==
    /\ Respond(code, FALSE, message, r)
    /\ UNCHANGED users

DayKey == _get_redis_key("email_sends", UserId, "day", StartTime)

InitSend ==
    /\ users = NoCounters
    /\ email_logs = <<>>
    /\ req = IdleRequest
    /\ nreq = 0
    /\ resp = NoResponse
    /\ dbUp = TRUE

\* the day counter of a tenant who has sent mail today already
InitSendCounters ==
    \E c \in 0..UNVERIFIED_DAILY_LIMIT :
        InitCounters([k \in PreloadKeys \cup {DayKey} |->
                         IF k = DayKey
                         THEN [count |-> c,
                               expires |-> _get_reset_time("day", StartTime)]
                         ELSE Preloaded[k]])

\* what a lookup in the database may find: nothing when the database does
\* not answer (the handlers of lines 289-291, 436-438 and 447-449, and of
\* email.py 284-286, return None)
Found == {found \in BOOLEAN : found => dbUp}

\* _validate_api_key, lines 225-291: whether a user is returned for a key
\* that is (or is not) one of the tenant's, the tenant being active or
\* suspended; the query of line 232 finds active users only
_validate_api_key(key_ok, is_active) == key_ok /\ is_active

\* steps 1-3, lines 61-78: the API key and the user are looked up, the
\* user's status is tested, then the rate limits are checked
send_email_via_public_api ==
    /\ req.pc = "idle"
    /\ rl[Sender].pc = "idle"
    /\ nreq < MaxRequests
    /\ nreq' = nreq + 1
    /\ \E key_ok \in Found, is_active \in BOOLEAN, is_verified \in BOOLEAN :
        LET r == [IdleRequest EXCEPT !.pc = "rate",
                                     !.is_verified = is_verified,
                                     !.remaining0 = RemainingDaily(is_verified),
                                     !.users0 = users,
                                     !.key_ok = key_ok,
                                     !.is_active = is_active]
        IN  IF ~_validate_api_key(key_ok, is_active)
            THEN /\ Reject(401, "Invalid API key",
                           [r EXCEPT !.steps = <<"credential">>])
                 /\ UNCHANGED rl
            ELSE IF ~is_active
            THEN /\ Reject(403, "Account suspended",
                           [r EXCEPT !.steps = <<"credential", "status">>])
                 /\ UNCHANGED rl
            ELSE /\ req' = [r EXCEPT
                               !.steps = <<"credential", "status", "quota">>]
                 /\ resp' = NoResponse
                 /\ rl' = [rl EXCEPT ![Sender] = _check_rate_limits(is_verified)]
                 /\ UNCHANGED users
    /\ last' = NoReturn
    /\ UNCHANGED <<now, ticks, redisUp, redis, ncalls, outage, used, hist,
                   email_logs, dbUp>>

\* the index of the next recipient the loop attempts, from i on: falsy
\* recipients are passed over (lines 135-136)
NextAttempt(recipients, i) ==
    IF \E j \in i..Len(recipients) : Truthy(recipients[j])
    THEN CHOOSE j \in i..Len(recipients) :
            /\ Truthy(recipients[j])
            /\ \A k \in i..(j - 1) : ~Truthy(recipients[k])
    ELSE Len(recipients) + 1

\* a call that succeeds when a message was sent
SucceededIfAnySent(sent_count) == sent_count > 0

\* line 208: the success flag of a call that ran the loop to its end
Succeeded(sent_count) == TRUE

\* steps 9-11, lines 177-208: the usage is logged, the counters are raised
\* by sent_count (_update_user_stats, lines 523-525), the response returns
Finish(r, u) ==
    /\ users' = IF dbUp
                THEN [total_emails_sent |->
                          u.total_emails_sent + r.sent_count,
                      emails_sent_today |->
                          u.emails_sent_today + r.sent_count]
                ELSE u
    /\ Respond(IF r.sent_count > 0 THEN 200 ELSE 500,
               Succeeded(r.sent_count), "Sent", r)

\* the loop of step 8 from recipient i on: up to the await of
\* send_email_enhanced, which has read its template by then (email.py
\* 520-528), or to the end of the request
Dispatch(r, i, u) ==
    LET j == NextAttempt(r.recipients, i)
    IN  IF j <= Len(r.recipients)
        THEN /\ req' = [r EXCEPT !.pc = "send", !.i = j, !.readable = dbUp]
             /\ resp' = NoResponse
             /\ users' = u
        ELSE Finish(r, u)

\* steps 3-7, lines 79-126, once _check_rate_limits has returned: the
\* request body, first read here, the template and the SMTP configuration
\* the lookups of lines 96 and 105 find
\* the outcome of steps 3-7: the status code logged and the message
\* returned, and the steps that ran after the rate limits
Outcome(code, message, ran) ==
    [code |-> code, message |-> message, ran |-> ran]

\* a pipeline that looks the template up before it validates the request
RejectionTemplateFirst(allowed, data, template, smtp_config) ==
    IF ~allowed
    THEN Outcome(429, "rate limit exceeded", <<>>)
    ELSE IF ~template
    THEN Outcome(404, "Template not found", <<"template">>)
    ELSE IF _validate_request_data(data) # "ok"
    THEN Outcome(400, _validate_request_data(data),
                 <<"template", "validation">>)
    ELSE IF ~smtp_config
    THEN Outcome(400, "SMTP configuration required",
                 <<"template", "validation", "smtp_config">>)
    ELSE IF ~AnyTruthy(DispatchRecipients(data))
    THEN Outcome(400, "No recipients specified",
                 <<"template", "validation", "smtp_config", "recipients">>)
    ELSE Outcome(0, "none", <<"template", "validation", "smtp_config",
                              "recipients", "dispatch">>)

\* lines 79-126: the first of steps 3-7 that fails, code 0 when none does
Rejection(allowed, data, template, smtp_config) ==
    IF ~allowed
    THEN Outcome(429, "rate limit exceeded", <<>>)
    ELSE IF _validate_request_data(data) # "ok"
    THEN Outcome(400, _validate_request_data(data), <<"validation">>)
    ELSE IF ~template
    THEN Outcome(404, "Template not found", <<"validation", "template">>)
    ELSE IF ~smtp_config
    THEN Outcome(400, "SMTP configuration required",
                 <<"validation", "template", "smtp_config">>)
    ELSE IF ~AnyTruthy(DispatchRecipients(data))
    THEN Outcome(400, "No recipients specified",
                 <<"validation", "template", "smtp_config", "recipients">>)
    ELSE Outcome(0, "none", <<"validation", "template", "smtp_config",
                              "recipients", "dispatch">>)

AfterRateLimits(allowed) ==
    \E data \in RequestData, template \in Found, smtp_config \in Found :
        LET o == Rejection(allowed, data, template, smtp_config)
            r == [req EXCEPT !.data = data, !.template = template,
                             !.smtp_config = smtp_config,
                             !.allowed = allowed,
                             !.steps = @ \o o.ran]
        IN  IF o.code # 0
            THEN Reject(o.code, o.message, r)
            ELSE Dispatch([r EXCEPT !.recipients = DispatchRecipients(data)],
                          1, users)

\* the request goes on when the rate-limit call of this step has returned
Continued ==
    /\ IF last' = NoReturn
       THEN UNCHANGED <<req, resp, users>>
       ELSE AfterRateLimits(last'.ret = "allowed")
    /\ UNCHANGED <<hist, nreq, email_logs, dbUp, poolVars, deliverVars, configVars,
            probe>>

\* a loop that a failure ends
NextIndexUnlessFailed(i, outcome, n) ==
    IF outcome = "sent" THEN i + 1 ELSE n + 1

\* the loop goes on after a failure as after a success
NextIndex(i, outcome, n) == i + 1

\* log_email, lines 702-724: the row is written if the database answers,
\* and nothing is raised if it does not
log_email(recipient, status) ==
    email_logs' = IF dbUp
                  THEN Append(email_logs,
                              [recipient |-> recipient, status |-> status])
                  ELSE email_logs

\* _update_user_email_stats, lines 683-699: both counters rise by one if the
\* database answers
_update_user_email_stats(u) ==
    IF dbUp
    THEN [total_emails_sent |-> u.total_emails_sent + 1,
          emails_sent_today |-> u.emails_sent_today + 1]
    ELSE u

\* a delivery that fails when its log row cannot be written
ReportedUnlessLogged(outcome, logged) ==
    IF outcome = "sent" /\ ~logged THEN "failed" ELSE outcome

\* email.py 640-655 with 723-724 and 698-699: what send_email_enhanced
\* reports of a delivery, its log row written or not
Reported(outcome, logged) == outcome

\* await send_email_enhanced(...) answers for recipient i (lines 140-174):
\* sent, with the log row and the counters of email.py 644-653; failed, with
\* the log row of email.py 672-679, as it is when the template could not be
\* read; or an exception (line 167)
SendReturns ==
    /\ req.pc = "send"
    /\ \E outcome \in {o \in {"sent", "failed", "raised"} :
                           o = "sent" => req.readable} :
        LET rcpt == req.recipients[req.i]
            reported == Reported(outcome, dbUp)
            u == IF outcome = "sent"
                 THEN _update_user_email_stats(users)
                 ELSE users
            r == [req EXCEPT
                    !.sent_count = @ + (IF reported = "sent" THEN 1 ELSE 0),
                    !.failed_count = @ + (IF reported = "sent" THEN 0 ELSE 1),
                    !.results = Append(@,
                        [recipient |-> rcpt,
                         status |-> IF reported = "sent" THEN "sent"
                                    ELSE "failed"]),
                    !.attempts = Append(@, [recipient |-> rcpt,
                                            outcome |-> outcome,
                                            logged |-> dbUp])]
        IN  /\ IF outcome = "raised"
               THEN UNCHANGED email_logs
               ELSE log_email(rcpt, outcome)
            /\ Dispatch(r, NextIndex(req.i, outcome, Len(req.recipients)), u)
    /\ nreq' = nreq
    /\ UNCHANGED <<dbUp, limiterVars, poolVars, deliverVars, configVars, probe>>

\* the request ran the loop of step 8 to its end
Dispatched == resp.code \in {200, 500}

\* C4 (skip on exhausted quota): a dispatched request with more recipients
\* than the daily quota that remained when it began makes as many delivery
\* attempts as the quota allows and reports the other recipients as skipped.
C4_SkipOnExhaustedQuota ==
    LET r == resp.request
    IN  (Dispatched /\ Len(r.recipients) > r.remaining0) =>
            /\ Len(r.attempts) = r.remaining0
            /\ Cardinality({j \in 1..Len(r.results) :
                               r.results[j].status = "skipped"})
                   = Len(r.recipients) - r.remaining0

\* the first n recipients of request r were attempted one after the other in
\* the order given, and the results hold one entry for each, in that order
AttemptedInOrder(r, n) ==
    /\ Len(r.attempts) = n
    /\ Len(r.results) = n
    /\ \A j \in 1..n :
        /\ r.attempts[j].recipient = r.recipients[j]
        /\ r.results[j].recipient = r.recipients[j]
        /\ r.results[j].status =
               IF r.attempts[j].outcome = "sent" THEN "sent" ELSE "failed"

\* C5 (partial-failure independence and order): while the loop waits for
\* recipient i, exactly the recipients before i were attempted, in order, with
\* one result each, whatever their outcomes; and a dispatched request has
\* attempted every recipient, in order, with one result each.
C5_PartialFailureOrder ==
    /\ req.pc = "send" => AttemptedInOrder(req, req.i - 1)
    /\ Dispatched =>
           AttemptedInOrder(resp.request, Len(resp.request.recipients))

\* a batch whose first attempt raised or failed and whose second was sent,
\* each reported so
C5_Witness ==
    /\ Dispatched
    /\ Len(resp.request.recipients) >= 2
    /\ resp.request.attempts[1].outcome \in {"raised", "failed"}
    /\ resp.request.attempts[2].outcome = "sent"
    /\ resp.request.results[1].status = "failed"
    /\ resp.request.results[2].status = "sent"

\* C6 (running counter): when a dispatched request returns, both running
\* counters of the tenant are higher by its sent_count than when it began.
C6_RunningCounter ==
    Dispatched =>
        /\ users.total_emails_sent =
               resp.request.users0.total_emails_sent + resp.request.sent_count
        /\ users.emails_sent_today =
               resp.request.users0.emails_sent_today + resp.request.sent_count

(***************************************************************************)
(* EmailService.send_email_enhanced: one delivery                          *)
(***************************************************************************)
\* A text is a sequence of pieces: plain text without braces, or a
\* placeholder {{name}}.
Text(t) == [kind |-> "text", v |-> t]

Tok(name) == [kind |-> "tok", v |-> name]

\* a value bound to a variable: a string, given as a text, or a number
StrValue(text) == [kind |-> "str", s |-> text, n |-> 0]

IntValue(n) == [kind |-> "int", s |-> <<>>, n |-> n]

\* str(value)
Str(value) ==
    IF value.kind = "int" THEN <<Text(ToString(value.n))>> ELSE value.s

\* a dict, in the order of its keys
Bind(key, value) == [key |-> key, value |-> value]

Keys(variables) == {variables[i].key : i \in 1..Len(variables)}

Lookup(variables, key) ==
    variables[CHOOSE i \in 1..Len(variables) : variables[i].key = key].value

RECURSIVE Replace(_, _, _)
\* content.replace("{{key}}", text): every occurrence, from left to right,
\* what was put in is not searched again
Replace(content, key, text) ==
    IF content = <<>> THEN <<>>
    ELSE (IF Head(content) = Tok(key) THEN text ELSE <<Head(content)>>)
             \o Replace(Tail(content), key, text)

RECURSIVE replace_variables(_, _)
\* replace_variables, lines 369-378: the keys are replaced one after the
\* other, in the order of the dict
replace_variables(content, variables) ==
    IF variables = <<>> THEN content
    ELSE replace_variables(
             Replace(content, Head(variables).key, Str(Head(variables).value)),
             Tail(variables))

SelectSeqNotIn(variables, keys) ==
    SelectSeq(variables, LAMBDA b : b.key \notin keys)

\* final_variables, lines 540-550: dict.update keeps the place of a key the
\* dict has and appends the others
Update(defaults, variables) ==
    [i \in 1..Len(defaults) |->
        IF defaults[i].key \in Keys(variables)
        THEN Bind(defaults[i].key, Lookup(variables, defaults[i].key))
        ELSE defaults[i]]
        \o SelectSeqNotIn(variables, Keys(defaults))

\* lines 557-561: the content with the variables replaced
Rendered(content, final_variables) ==
    IF final_variables # <<>>
    THEN replace_variables(content, final_variables)
    ELSE content

\* a row of email_templates
Template(subject, html_content, default_variables) ==
    [subject |-> subject, html_content |-> html_content,
     default_variables |-> default_variables]

\* the templates of a run: placeholders a and b, and c, which nothing binds
Templates ==
    {Template(<<Text("Hi "), Tok("a")>>,
              <<Tok("a"), Text(" and "), Tok("b"), Tok("c")>>, <<>>),
     Template(<<Tok("c")>>, <<Tok("b"), Tok("a")>>,
              <<Bind("a", StrValue(<<Text("dflt")>>))>>)}

\* the variables of a run: none, a string, a number, two keys, a value that
\* holds the placeholder of a later key or of an earlier key, a value that
\* holds a placeholder nothing binds
VariableMaps ==
    {<<>>,
     <<Bind("a", StrValue(<<Text("x")>>))>>,
     <<Bind("a", IntValue(7))>>,
     <<Bind("a", StrValue(<<Text("x")>>)), Bind("b", StrValue(<<Text("y")>>))>>,
     <<Bind("a", StrValue(<<Tok("b")>>)), Bind("b", StrValue(<<Text("y")>>))>>,
     <<Bind("b", StrValue(<<Text("y")>>)), Bind("a", StrValue(<<Tok("b")>>))>>,
     <<Bind("a", StrValue(<<Tok("c")>>))>>}

\* the SMTP configuration a delivery is given
DeliveryConfig(port, use_tls, username, password) ==
    [smtp_port |-> port, use_tls |-> use_tls, smtp_username |-> username,
     smtp_password |-> password]

\* a port that is none of the conventional ones
OtherPort == 2525

\* the configurations of a run: every port with TLS asked for and not, with
\* credentials and without
DeliveryConfigs ==
    {DeliveryConfig(port, use_tls, cred[1], cred[2]) :
        port \in {ImplicitTlsPort, SubmissionPort, SmtpPort, OtherPort},
        use_tls \in BOOLEAN,
        cred \in {<<"alice", "secret1">>, <<"", "">>}}

Params(use_tls, start_tls) == [use_tls |-> use_tls, start_tls |-> start_tls]

\* lines 610-631: use_tls and start_tls of the SMTP client (each False
\* unless send_params sets it)
TransportParams(smtp_port, use_tls) ==
    IF smtp_port = ImplicitTlsPort
    THEN Params(TRUE, FALSE)
    ELSE IF use_tls /\ smtp_port \in {SubmissionPort, SmtpPort}
    THEN Params(FALSE, TRUE)
    ELSE IF use_tls
    THEN Params(FALSE, TRUE)
    ELSE IF smtp_port = ImplicitTlsPort
    THEN Params(TRUE, FALSE)
    ELSE Params(FALSE, TRUE)

NoTemplate == Template(<<>>, <<>>, <<>>)

IdleDelivery ==
    [pc |-> "idle", recipient |-> Absent, bounced |-> FALSE,
     template |-> NoTemplate, final_variables |-> <<>>,
     subject |-> <<>>, html_content |-> <<>>,
     config |-> DeliveryConfig(0, FALSE, "", ""),
     params |-> Params(FALSE, FALSE), connected |-> FALSE,
     accepted |-> FALSE]

\* what a call returned, with the call
NoDelivery ==
    [success |-> FALSE, message |-> "none", logged |-> FALSE,
     call |-> IdleDelivery]

InitDeliver ==
    /\ email_bounces = {}
    /\ dlv = IdleDelivery
    /\ ndlv = 0
    /\ dret = NoDelivery

\* the handler of lines 657-681: the failure is logged and returned
DeliveryFailed(call, message) ==
    /\ log_email(call.recipient, "failed")
    /\ dret' = [success |-> FALSE, message |-> message, logged |-> dbUp,
                call |-> call]
    /\ dlv' = IdleDelivery
    /\ UNCHANGED users

\* send_email_enhanced, lines 517-631: the template is read, the variables
\* are merged and replaced, the transport is chosen and the SMTP client is
\* made, up to the await of connect()
send_email_enhanced ==
    /\ dlv.pc = "idle"
    /\ ndlv < MaxDeliveries
    /\ ndlv' = ndlv + 1
    /\ \E recipient \in Addresses, template \in Templates \cup {NoTemplate},
          variables \in VariableMaps, config \in DeliveryConfigs :
        LET final_variables == Update(template.default_variables, variables)
            call == [IdleDelivery EXCEPT
                        !.pc = "connect",
                        !.recipient = recipient,
                        !.bounced = recipient \in email_bounces,
                        !.template = template,
                        !.final_variables = final_variables,
                        !.subject = Rendered(template.subject, final_variables),
                        !.html_content =
                            Rendered(template.html_content, final_variables),
                        !.config = config,
                        !.params =
                            TransportParams(config.smtp_port, config.use_tls)]
        IN  IF ~dbUp
            THEN DeliveryFailed([IdleDelivery EXCEPT !.recipient = recipient,
                                    !.bounced = recipient \in email_bounces],
                                "database error")
            ELSE IF template = NoTemplate
            THEN /\ dret' = [success |-> FALSE,
                             message |-> "Template not found",
                             logged |-> FALSE,
                             call |-> [IdleDelivery EXCEPT
                                          !.recipient = recipient,
                                          !.bounced =
                                              recipient \in email_bounces]]
                 /\ dlv' = IdleDelivery
                 /\ UNCHANGED <<email_logs, users>>
            ELSE /\ dlv' = call
                 /\ dret' = NoDelivery
                 /\ UNCHANGED <<email_logs, users>>
    /\ UNCHANGED <<email_bounces, dbUp, req, nreq, resp, limiterVars, poolVars,
                   configVars, probe>>

\* the call once the message and the SMTP client are made: what they were
\* made from is not read again
Built(call) ==
    [call EXCEPT !.template = NoTemplate, !.final_variables = <<>>,
                 !.subject = <<>>, !.html_content = <<>>]

\* await smtp_client.connect() answers (line 633)
SmtpConnectReturns ==
    /\ dlv.pc = "connect"
    /\ \E ok \in BOOLEAN :
        IF ok
        THEN /\ dlv' = [Built(dlv) EXCEPT
                           !.pc = IF dlv.config.smtp_username # ""
                                     /\ dlv.config.smtp_password # ""
                                  THEN "login" ELSE "send",
                           !.connected = TRUE]
             /\ dret' = NoDelivery
             /\ UNCHANGED <<email_logs, users>>
        ELSE DeliveryFailed(Built(dlv), "connection refused")
    /\ UNCHANGED <<email_bounces, ndlv, dbUp, req, nreq, resp, limiterVars,
                   poolVars, configVars, probe>>

\* await smtp_client.login(...) answers (line 637)
SmtpLoginReturns ==
    /\ dlv.pc = "login"
    /\ \E ok \in BOOLEAN :
        IF ok
        THEN /\ dlv' = [dlv EXCEPT !.pc = "send"]
             /\ dret' = NoDelivery
             /\ UNCHANGED <<email_logs, users>>
        ELSE DeliveryFailed(dlv, "authentication failed")
    /\ UNCHANGED <<email_bounces, ndlv, dbUp, req, nreq, resp, limiterVars,
                   poolVars, configVars, probe>>

\* await smtp_client.send_message(message) answers (line 640)
SendMessageReturns ==
    /\ dlv.pc = "send"
    /\ \E ok \in BOOLEAN :
        IF ok
        THEN /\ dlv' = [dlv EXCEPT !.pc = "quit", !.accepted = TRUE]
             /\ dret' = NoDelivery
             /\ UNCHANGED <<email_logs, users>>
        ELSE DeliveryFailed(dlv, "rejected")
    /\ UNCHANGED <<email_bounces, ndlv, dbUp, req, nreq, resp, limiterVars,
                   poolVars, configVars, probe>>

\* await smtp_client.quit() answers (line 641), and lines 643-655 after it
SmtpQuitReturns ==
    /\ dlv.pc = "quit"
    /\ \E ok \in BOOLEAN :
        IF ok
        THEN /\ log_email(dlv.recipient, "sent")
             /\ users' = _update_user_email_stats(users)
             /\ dret' = [success |-> TRUE, message |-> "Email sent successfully",
                         logged |-> dbUp, call |-> dlv]
             /\ dlv' = IdleDelivery
        ELSE DeliveryFailed(dlv, "connection lost")
    /\ UNCHANGED <<email_bounces, ndlv, dbUp, req, nreq, resp, limiterVars,
                   poolVars, configVars, probe>>

\* an address is entered in table email_bounces (database.py 308-322)
BounceListed ==
    /\ \E address \in Addresses \ email_bounces :
        email_bounces' = email_bounces \cup {address}
    /\ dret' = NoDelivery
    /\ UNCHANGED <<dlv, ndlv, sendVars, limiterVars, poolVars, configVars, probe>>

\* handle_webhook, lines 927-975, for a "bounced" event with a message id:
\* db_manager.get_db_connection() gives the context manager of database.py
\* 63-64, not a connection, so conn.cursor() of line 943 raises, the handler
\* of line 973 returns False and line 948 never inserts the address
handle_webhook ==
    /\ dret' = [NoDelivery EXCEPT !.message = "webhook not handled"]
    /\ UNCHANGED <<email_bounces, dlv, ndlv, sendVars, limiterVars, poolVars,
                   configVars, probe>>

\* the database stops answering, and answers again
DbDown ==
    /\ dbUp
    /\ dbUp' = FALSE
    /\ dret' = NoDelivery
    /\ resp' = NoResponse
    /\ UNCHANGED <<email_bounces, dlv, ndlv, users, email_logs, req, nreq,
                   limiterVars, poolVars, configVars, probe>>

DbBack ==
    /\ ~dbUp
    /\ dbUp' = TRUE
    /\ dret' = NoDelivery
    /\ resp' = NoResponse
    /\ UNCHANGED <<email_bounces, dlv, ndlv, users, email_logs, req, nreq,
                   limiterVars, poolVars, configVars, probe>>

\* C29 (no leaked connection per attempt): a call of send_email_enhanced
\* whose SMTP client connected has awaited quit() on that client when it
\* returns, on the success path and on every failure path.
C29_NoLeakedConnection ==
    (dret.call # IdleDelivery /\ dret.call.connected) =>
        dret.call.pc = "quit"

\* C23 (one DeliveryAttempt per attempt): when send_email_enhanced has
\* returned, table email_logs holds one row for each call so far, the last
\* of them for the recipient of this call, with status "sent" if the relay
\* accepted the message and "failed" if not.
C23_OneLogPerAttempt ==
    dret.message \notin {"none", "webhook not handled"} =>
        /\ Len(email_logs) = ndlv
        /\ email_logs[ndlv].recipient = dret.call.recipient
        /\ email_logs[ndlv].status =
               IF dret.call.accepted THEN "sent" ELSE "failed"

\* C16 (transport-mode selection): the SMTP client of a delivery uses
\* implicit TLS on port 465; on every other port it uses STARTTLS when the
\* config has use_tls set, and neither use_tls nor start_tls when it has not.
C16_TransportMode ==
    dlv.pc = "connect" =>
        LET port == dlv.config.smtp_port
            flag == dlv.config.use_tls
        IN  /\ port = ImplicitTlsPort => dlv.params = Params(TRUE, FALSE)
            /\ (port # ImplicitTlsPort /\ flag) =>
                   dlv.params = Params(FALSE, TRUE)
            /\ (port # ImplicitTlsPort /\ ~flag) =>
                   dlv.params = Params(FALSE, FALSE)

\* C17 (bounce suppression): for a recipient that is in email_bounces when
\* send_email_enhanced is called no SMTP client is connected, and the call
\* returns a failure with the reason "suppressed".
C17_BounceSuppression ==
    /\ dlv.pc # "idle" => ~dlv.bounced
    /\ (dret.call # IdleDelivery /\ dret.call.bounced) =>
           /\ ~dret.success
           /\ dret.message = "suppressed"
           /\ ~dret.call.connected

RECURSIVE Simultaneous(_, _)
\* the content with every placeholder that a key names replaced by the
\* string form of the key's value, and everything else as it is
Simultaneous(content, variables) ==
    IF content = <<>> THEN <<>>
    ELSE (IF Head(content).kind = "tok"
               /\ Head(content).v \in Keys(variables)
          THEN Str(Lookup(variables, Head(content).v))
          ELSE <<Head(content)>>)
             \o Simultaneous(Tail(content), variables)

\* C18 as stated (template variable passthrough): the rendered subject and
\* body are the template's with every placeholder whose name is a key
\* replaced by the string form of the bound value and every other
\* placeholder left as it is.
C18_Passthrough ==
    dlv.pc = "connect" =>
        /\ dlv.subject =
               Simultaneous(dlv.template.subject, dlv.final_variables)
        /\ dlv.html_content =
               Simultaneous(dlv.template.html_content, dlv.final_variables)

\* C27 (denied requests consume no quota): when _check_rate_limits, the only
\* call in progress, returns a denial before the clock has moved, the
\* counter of every window it checked holds the count the call read there.
C27_DenialConsumesNothing ==
    (last # NoReturn /\ last.op = "_check_rate_limits"
        /\ last.ret = "denied" /\ ticks = 0) =>
        \A i \in 1..Len(last.res) :
            StoredCount(last.res[i].key) = last.res[i].cur

\* lines 349-359: the recipient list _validate_request_data checks
ValidatedRecipients(data) ==
    IF data.recipients # <<>> THEN data.recipients
    ELSE IF Truthy(data.to_email) THEN <<data.to_email>>
    ELSE IF Truthy(data.email) THEN <<data.email>>
    ELSE IF Truthy(data.recipient) THEN <<data.recipient>>
    ELSE <<>>

\* C30 (validation and dispatch agree on the recipients): no request that
\* passed _validate_request_data is rejected with "No recipients specified",
\* and the list the loop of step 8 runs over is the list that was validated.
C30_SameRecipients ==
    /\ resp.message # "No recipients specified"
    /\ req.pc = "send" => req.recipients = ValidatedRecipients(req.data)
    /\ Dispatched =>
           resp.request.recipients = ValidatedRecipients(resp.request.data)

\* C26 (daily limit bounds messages): when a request of an unverified
\* tenant, whose daily limit is finite, has run the loop of step 8, the
\* messages sent in the day bucket, those counted before the request and
\* those it sent, are within the daily limit, and the day counter has risen
\* by the number of recipients the request attempted.
C26_DailyLimitBounds ==
    LET r == resp.request
        counted == DailyLimit(FALSE) - r.remaining0
    IN  (Dispatched /\ ~r.is_verified) =>
            /\ counted + r.sent_count <= DailyLimit(FALSE)
            /\ StoredCount(_get_redis_key("email_sends", UserId, "day", now))
                   = counted + Len(r.attempts)

\* C19 (call-level success): a request that reached the loop of step 8 and
\* attempted a message answers success = True with HTTP 200, whatever the
\* attempts came to, and each failed attempt is a "failed" entry of results.
C19_CallLevelSuccess ==
    LET r == resp.request
    IN  (Dispatched /\ r.attempts # <<>>) =>
            /\ resp.success
            /\ resp.http = 200
            /\ Len(r.results) = Len(r.attempts)
            /\ \A i \in 1..Len(r.attempts) :
                   /\ r.results[i].recipient = r.attempts[i].recipient
                   /\ r.results[i].status = "failed"
                          <=> r.attempts[i].outcome # "sent"

\* a request all of whose recipients failed, one by an exception
C19_Witness ==
    /\ Dispatched
    /\ Len(resp.request.attempts) = MaxRecipients
    /\ resp.request.sent_count = 0
    /\ \E i \in 1..Len(resp.request.attempts) :
           resp.request.attempts[i].outcome = "raised"
    /\ resp.code = 500
    /\ resp.success
    /\ resp.http = 200

\* C20 (log-write failures are swallowed): every message that was sent is
\* reported "sent" in the results of its request and counted in sent_count,
\* and the request answers success = True with HTTP 200, whether or not the
\* email log, the statistics and the API usage log could be written.
C20_LogFailuresSwallowed ==
    LET r == resp.request
        sent == {i \in 1..Len(r.attempts) : r.attempts[i].outcome = "sent"}
    IN  (Dispatched /\ r.attempts # <<>>) =>
            /\ \A i \in sent : r.results[i].status = "sent"
            /\ r.sent_count = Cardinality(sent)
            /\ resp.success
            /\ resp.http = 200

\* a request with a message sent while the database was away, so that
\* neither its log row nor the usage log row of the request was written
C20_Witness ==
    /\ Dispatched
    /\ ~resp.logged
    /\ email_logs = <<>>
    /\ users = resp.request.users0
    /\ \E i \in 1..Len(resp.request.attempts) :
           /\ resp.request.attempts[i].outcome = "sent"
           /\ ~resp.request.attempts[i].logged
           /\ resp.request.results[i].status = "sent"
    /\ resp.success
    /\ resp.http = 200

\* the steps of a request, in the order of lines 60-128
PipelineOrder ==
    <<"credential", "status", "quota", "validation", "template",
      "smtp_config", "recipients", "dispatch">>

IsPrefix(s, t) ==
    /\ Len(s) <= Len(t)
    /\ \A i \in 1..Len(s) : s[i] = t[i]

\* whether a step finds what it needs for request r
Passes(r, step) ==
    CASE step = "credential" -> _validate_api_key(r.key_ok, r.is_active)
      [] step = "status" -> r.is_active
      [] step = "quota" -> r.allowed
      [] step = "validation" -> _validate_request_data(r.data) = "ok"
      [] step = "template" -> r.template
      [] step = "smtp_config" -> r.smtp_config
      [] step = "recipients" -> AnyTruthy(DispatchRecipients(r.data))
      [] step = "dispatch" -> TRUE

\* the positions in PipelineOrder of the steps that fail for request r
Failing(r) ==
    {i \in 1..Len(PipelineOrder) : ~Passes(r, PipelineOrder[i])}

FirstFailing(r) == CHOOSE i \in Failing(r) : \A j \in Failing(r) : i <= j

\* C11 (pipeline order and short-circuit): the steps a request has run are
\* an initial part of the fixed order, each once; a request with a failing
\* step returns a failure after exactly the steps up to the first failing
\* one, with no delivery attempt; a request with none runs them all, makes
\* delivery attempts and returns success.
C11_PipelineOrder ==
    /\ IsPrefix(req.steps, PipelineOrder)
    /\ req.pc = "send" => req.steps = PipelineOrder
    /\ resp # NoResponse =>
           LET r == resp.request
           IN  /\ IsPrefix(r.steps, PipelineOrder)
               /\ Failing(r) # {} =>
                      /\ ~resp.success
                      /\ Len(r.steps) = FirstFailing(r)
                      /\ r.attempts = <<>>
               /\ Failing(r) = {} =>
                      /\ resp.success
                      /\ r.steps = PipelineOrder
                      /\ r.attempts # <<>>

\* a request rejected for its body although the template and the SMTP
\* configuration are missing too, and one that ran every step
C11_Witness ==
    /\ resp # NoResponse
    /\ resp.request.steps =
           <<"credential", "status", "quota", "validation">>
    /\ ~resp.request.template
    /\ ~resp.request.smtp_config
    /\ resp.http = 400

\* C12 (suspended tenant): a request whose API key is the key of a
\* suspended tenant is answered "Account suspended" with HTTP status 403.
C12_SuspendedForbidden ==
    (resp # NoResponse /\ resp.request.key_ok /\ ~resp.request.is_active) =>
        /\ resp.message = "Account suspended"
        /\ resp.code = 403
        /\ resp.http = 403

(***************************************************************************)
(* EmailService.create_smtp_config: the relay credentials of the tenants   *)
(***************************************************************************)
Tenants == {1, 2}

\* the ports create_smtp_config is called with: two of valid_ports (line
\* 223) and one that is not
ConfigPorts == {ImplicitTlsPort, SubmissionPort, 0}

\* _validate_smtp_config, lines 207-228, for what the model varies: the port
_validate_smtp_config(smtp_port) ==
    smtp_port \in {SmtpPort, ImplicitTlsPort, SubmissionPort, OtherPort}

NoRow == [id |-> 0, user_id |-> 0, is_active |-> FALSE]

InitConfigs ==
    /\ smtp_configs = <<>>
    /\ cret = NoRow

\* an UPDATE that deactivates nothing
DeactivatedNone(rows, user_id) == rows

\* the UPDATE of lines 145-148: every row of the user is deactivated
Deactivated(rows, user_id) ==
    [i \in 1..Len(rows) |->
        IF rows[i].user_id = user_id
        THEN [rows[i] EXCEPT !.is_active = FALSE]
        ELSE rows[i]]

\* the INSERT of lines 154-168: the new row is active; ids rise
Inserted(rows, user_id, smtp_port) ==
    Append(rows, [id |-> Len(rows) + 1, user_id |-> user_id,
                  smtp_port |-> smtp_port, is_active |-> TRUE])

\* get_user_smtp_config, lines 247-286: the newest active row of the user,
\* NoRow when there is none or the database does not answer
get_user_smtp_config(user_id) ==
    LET own == {i \in 1..Len(smtp_configs) :
                   /\ smtp_configs[i].user_id = user_id
                   /\ smtp_configs[i].is_active}
    IN  IF ~dbUp \/ own = {} THEN NoRow
        ELSE LET i == CHOOSE i \in own : \A j \in own : j <= i
             IN  [id |-> smtp_configs[i].id, user_id |-> user_id,
                  is_active |-> TRUE]

\* create_smtp_config, lines 135-204. The function is synchronous and is
\* called from a coroutine (routes/email.py:43), so a call runs to its end
\* before another begins. The connection is in autocommit mode
\* (database.py:42): the UPDATE stays when the INSERT after it raises.
create_smtp_config ==
    /\ Len(smtp_configs) < MaxConfigs
    /\ \E user_id \in Tenants, smtp_port \in ConfigPorts,
          inserts \in BOOLEAN :
        IF ~_validate_smtp_config(smtp_port) \/ ~dbUp
        THEN /\ cret' = [NoRow EXCEPT !.user_id = user_id]
             /\ UNCHANGED smtp_configs
        ELSE IF ~inserts
        THEN /\ smtp_configs' = Deactivated(smtp_configs, user_id)
             /\ cret' = [NoRow EXCEPT !.user_id = user_id]
        ELSE /\ smtp_configs' =
                    Inserted(Deactivated(smtp_configs, user_id), user_id,
                             smtp_port)
             /\ cret' = [id |-> Len(smtp_configs) + 1, user_id |-> user_id,
                         is_active |-> TRUE]
    /\ UNCHANGED <<dbUp, limiterVars, poolVars, users, email_logs, req, nreq,
                   resp, deliverVars, probe>>

ActiveRows(user_id) ==
    {i \in 1..Len(smtp_configs) :
        /\ smtp_configs[i].user_id = user_id
        /\ smtp_configs[i].is_active}

RowsOf(user_id) ==
    {i \in 1..Len(smtp_configs) : smtp_configs[i].user_id = user_id}

\* C21 (single active relay credential): of the rows of one tenant at most
\* one is active, and an active row is the tenant's newest; a call that
\* returned a config left that row the tenant's only active one.
C21_SingleActiveConfig ==
    /\ \A u \in Tenants :
           /\ Cardinality(ActiveRows(u)) <= 1
           /\ \A i \in ActiveRows(u) : \A j \in RowsOf(u) : j <= i
    /\ cret.id # 0 =>
           /\ ActiveRows(cret.user_id) = {cret.id}
           /\ get_user_smtp_config(cret.user_id).id \in {0, cret.id}

\* a tenant for whom a second config was created after a first, while the
\* other tenant has a config too
C21_Witness ==
    /\ cret.id = MaxConfigs
    /\ Cardinality(RowsOf(cret.user_id)) = 2
    /\ \E u \in Tenants \ {cret.user_id} : ActiveRows(u) # {}
    /\ ActiveRows(cret.user_id) = {cret.id}

(***************************************************************************)
(* RateLimitService: key labels and reset times on the calendar            *)
(***************************************************************************)
\* Instants are seconds from Monday 2024-01-01 00:00 UTC.
EpochYear == 2024

Windows == RateLimitWindow \cup {"week", "month"}

IsLeap(year) == year % 4 = 0

DaysInYear(year) == IF IsLeap(year) THEN 366 ELSE 365

DaysInMonth(year, month) ==
    CASE month = 2 -> IF IsLeap(year) THEN 29 ELSE 28
      [] month \in {4, 6, 9, 11} -> 30
      [] OTHER -> 31

RECURSIVE DaysBefore(_, _)
\* the days of the year before its month
DaysBefore(year, month) ==
    IF month = 1 THEN 0
    ELSE DaysBefore(year, month - 1) + DaysInMonth(year, month - 1)

\* the day number of a date of EpochYear or the year after
DayNumber(year, month, day) ==
    (IF year = EpochYear THEN 0 ELSE DaysInYear(EpochYear))
        + DaysBefore(year, month) + day - 1

\* the Monday on which ISO week 1 of the year after EpochYear begins
\* (EpochYear begins on a Monday; week 1 holds the year's first Thursday)
LastIsoMonday == (DaysInYear(EpochYear) \div 7) * 7

\* datetime.utcnow() at instant t: the fields of the datetime, weekday()
\* (Monday is 0) and isocalendar()[1]
DateTime(t) ==
    LET d == t \div SecondsPerDay
        year == IF d < DaysInYear(EpochYear) THEN EpochYear
                ELSE EpochYear + 1
        doy == IF year = EpochYear THEN d ELSE d - DaysInYear(EpochYear)
        month == CHOOSE m \in 1..12 :
                    /\ DaysBefore(year, m) <= doy
                    /\ doy < DaysBefore(year, m) + DaysInMonth(year, m)
    IN  [year |-> year, month |-> month,
         day |-> doy - DaysBefore(year, month) + 1,
         hour |-> (t % SecondsPerDay) \div SecondsPerHour,
         minute |-> (t % SecondsPerHour) \div SecondsPerMinute,
         second |-> t % SecondsPerMinute,
         weekday |-> d % 7,
         week |-> IF d < LastIsoMonday THEN d \div 7 + 1
                  ELSE (d - LastIsoMonday) \div 7 + 1]

\* time_bucket of _get_redis_key, lines 117-127
time_bucket(window, t) ==
    LET dt == DateTime(t)
    IN  CASE window = "minute" ->
                <<dt.year, dt.month, dt.day, dt.hour, dt.minute>>
          [] window = "hour" -> <<dt.year, dt.month, dt.day, dt.hour>>
          [] window = "day" -> <<dt.year, dt.month, dt.day>>
          [] window = "week" -> <<dt.year, "W", dt.week>>
          [] OTHER -> <<dt.year, dt.month>>

\* _get_reset_time, lines 131-148, for all five windows
reset_time(window, t) ==
    LET dt == DateTime(t)
        d == t \div SecondsPerDay
    IN  CASE window \in RateLimitWindow -> _get_reset_time(window, t)
          [] window = "week" -> (d + (6 - dt.weekday)) * SecondsPerDay
          [] OTHER ->
                IF dt.month = 12
                THEN DayNumber(dt.year + 1, 1, 1) * SecondsPerDay
                ELSE DayNumber(dt.year, dt.month + 1, 1) * SecondsPerDay

\* the instants at which the label of a window can change: the label is made
\* of the fields of the datetime down to the minute, the hour or the day
Grid(window) ==
    CASE window = "minute" -> SecondsPerMinute
      [] window = "hour" -> SecondsPerHour
      [] OTHER -> SecondsPerDay

\* the longest bucket, in steps of the grid
MaxBucketSteps == 60

\* the end of the bucket of instant t: the first instant after t at which
\* _get_redis_key makes another label
BucketEnd(window, t) ==
    LET g == Grid(window)
        n == t \div g
        later == {m \in (n + 1)..(n + MaxBucketSteps) :
                     time_bucket(window, m * g) # time_bucket(window, t)}
    IN  g * (CHOOSE m \in later : \A j \in later : m <= j)

\* the days of a run: a Monday, a Saturday and a Sunday, the ends of months
\* of 31, 30 and 29 days, the end of the year and the day after
ProbeDays ==
    {DayNumber(EpochYear, 1, 1), DayNumber(EpochYear, 1, 6),
     DayNumber(EpochYear, 1, 7), DayNumber(EpochYear, 1, 31),
     DayNumber(EpochYear, 2, 29), DayNumber(EpochYear, 3, 1),
     DayNumber(EpochYear, 11, 30), DayNumber(EpochYear, 12, 30),
     DayNumber(EpochYear, 12, 31), DayNumber(EpochYear + 1, 1, 1)}

\* the times of day of a run: around the ends of a minute, an hour and a day
ProbeSeconds ==
    {0, StartTime, SecondsPerMinute - 1, SecondsPerMinute,
     SecondsPerHour - 1, SecondsPerHour, SecondsPerDay - 1}

NoProbe == [window |-> "none", t |-> 0, key |-> <<>>, reset |-> 0]

InitProbe == probe = NoProbe

\* lines 171 and 178 of check_rate_limit at one instant: the key's label and
\* the reset time of the window
Probe ==
    /\ \E window \in Windows, day \in ProbeDays, sec \in ProbeSeconds :
          LET t == day * SecondsPerDay + sec
          IN  probe' = [window |-> window, t |-> t,
                        key |-> time_bucket(window, t),
                        reset |-> reset_time(window, t)]
    /\ UNCHANGED <<limiterVars, poolVars, sendVars, deliverVars, configVars>>

\* C25 (reset time lies ahead): the reset time of a window is later than the
\* instant it is computed at and is the end of the bucket the key labels, so
\* that the retry_after of a denial, the time to the reset, is not negative.
C25_ResetAhead ==
    probe.window # "none" =>
        /\ probe.reset > probe.t
        /\ probe.reset = BucketEnd(probe.window, probe.t)
        /\ probe.reset - probe.t >= 0

(***************************************************************************)
(* Specifications                                                          *)
(***************************************************************************)
Init ==
    /\ InitLimiter /\ InitPool /\ InitSend /\ InitDeliver /\ InitConfigs
    /\ InitProbe

\* concurrent callers of check_rate_limit on one (type, identifier, window)
NextLimiter ==
    \/ \E p \in Callers, inc \in 0..MaxIncrement :
          check_rate_limit(p, inc) /\ Recorded
    \/ \E p \in Callers : GetCurrentCount(p) /\ Recorded
    \/ \E p \in Callers : IncrementCounter(p) /\ Recorded
    \/ TickMinute /\ Recorded
    \/ RedisDown /\ Recorded
    \/ RedisBack /\ Recorded

SpecLimiter == Init /\ [][NextLimiter]_vars

\* check_rate_limit calls one after the other, the store reachable, while
\* the clock goes on
NextSequential ==
    \/ \E p \in Callers : check_rate_limit_alone(p) /\ Recorded
    \/ \E p \in Callers : GetCurrentCount(p) /\ Recorded
    \/ \E p \in Callers : IncrementCounter(p) /\ Recorded
    \/ TickMinute /\ Recorded

SpecSequential == Init /\ [][NextSequential]_vars

\* The multi-window checks, one at a time, with the other callers' single
\* checks of the burst window going on at the same time.
WindowCallers == {1}

NextWindows ==
    \/ \E p \in WindowCallers : check_email_rate_limit(p) /\ Unrecorded
    \/ \E p \in WindowCallers : check_api_rate_limit(p) /\ Unrecorded
    \/ \E p \in Callers \ WindowCallers :
          check_rate_limit(p, 1) /\ Unrecorded
    \/ \E p \in Callers : GetCurrentCount(p) /\ Unrecorded
    \/ \E p \in Callers : IncrementCounter(p) /\ Unrecorded
    \/ TickMinute /\ Unrecorded
    \/ TickHour /\ Unrecorded
    \/ TickDay /\ Unrecorded

SpecWindows == Init /\ [][NextWindows]_vars

\* concurrent callers of get_smtp_connection
NextPool ==
    \/ \E p \in Callers : Acquire(p) /\ UNCHANGED <<limiterVars, sendVars, deliverVars, configVars, probe>>
    \/ \E p \in Callers : NoopReturns(p) /\ UNCHANGED <<limiterVars, sendVars, deliverVars, configVars, probe>>
    \/ \E p \in Callers : ConnectReturns(p) /\ UNCHANGED <<limiterVars, sendVars, deliverVars, configVars, probe>>
    \/ \E p \in Callers : LoginReturns(p) /\ UNCHANGED <<limiterVars, sendVars, deliverVars, configVars, probe>>
    \/ \E p \in Callers : QuitReturns(p) /\ UNCHANGED <<limiterVars, sendVars, deliverVars, configVars, probe>>
    \/ \E p \in Callers : BodyReturns(p) /\ UNCHANGED <<limiterVars, sendVars, deliverVars, configVars, probe>>
    \/ \E p \in Callers : BodyRaises(p) /\ UNCHANGED <<limiterVars, sendVars, deliverVars, configVars, probe>>
    \/ Drop /\ UNCHANGED <<limiterVars, sendVars, deliverVars, configVars, probe>>

SpecPool == Init /\ [][NextPool]_vars

\* one request at a time through the pipeline
NextSend ==
    \/ send_email_via_public_api /\ UNCHANGED <<poolVars, deliverVars, configVars, probe>>
    \/ GetCurrentCount(Sender) /\ Continued
    \/ IncrementCounter(Sender) /\ Continued
    \/ SendReturns
    \/ TickMinute /\ Unrecorded

InitPipeline ==
    /\ InitSendCounters /\ InitPool /\ InitSend /\ InitDeliver /\ InitConfigs
    /\ InitProbe

\* deliveries one at a time, while addresses are entered in the bounce list
\* and the database comes and goes
NextDeliver ==
    \/ send_email_enhanced
    \/ SmtpConnectReturns
    \/ SmtpLoginReturns
    \/ SendMessageReturns
    \/ SmtpQuitReturns
    \/ BounceListed
    \/ handle_webhook
    \/ DbDown
    \/ DbBack

SpecSend == InitPipeline /\ [][NextSend]_vars

\* Requests while the database comes and goes
NextOutage ==
    \/ send_email_via_public_api /\ UNCHANGED <<poolVars, deliverVars, configVars, probe>>
    \/ GetCurrentCount(Sender) /\ Continued
    \/ IncrementCounter(Sender) /\ Continued
    \/ SendReturns
    \/ DbDown
    \/ DbBack

SpecOutage == InitPipeline /\ [][NextOutage]_vars

SpecDeliver == Init /\ [][NextDeliver]_vars

\* The tenants' calls of create_smtp_config, one after the other, while the
\* database comes and goes
NextConfigs ==
    \/ create_smtp_config
    \/ DbDown
    \/ DbBack

SpecConfigs == Init /\ [][NextConfigs]_vars

\* Keys and reset times computed at the instants of a run
NextClock == Probe

SpecClock == Init /\ [][NextClock]_vars

====
